------------------------------ MODULE Spec2Model ------------------------------
(***************************************************************************)
(* Vickrey (sealed-bid, second-price) auction chaincode of                 *)
(* nandlab/fabric-infsec-auction, final revision of the contract           *)
(* (VickreyAuctionContract).  One action per chaincode transaction; the    *)
(* world state is a key-value store holding one Auction per name.          *)
(***************************************************************************)
EXTENDS Integers, Sequences, FiniteSets, TLC

(***************************************************************************)
(* Bounds of the model                                                     *)
(***************************************************************************)
MaxBids == 2
MaxEndBids == 3

(***************************************************************************)
(* Program constants                                                       *)
(***************************************************************************)
Open == 0
Closed == 1
Ended == 2
CommitLen == 64
SaltMinLen == 64
PriceBytes == 8

(***************************************************************************)
(* Identities: the DER bytes (cert.Raw) of the callers' X.509 certificates *)
(***************************************************************************)
Certs == {<<1>>, <<2>>, <<3>>}
Sellers == {<<1>>}
Bidders == {<<2>>, <<3>>}
Names == {"n1", "n2"}
Nil == <<>>

(* A salt of n bytes, each of value k *)
Salt(k, n) == [len |-> n, fill |-> k]
GoodSalt == Salt(7, SaltMinLen)
ShortSalt == Salt(7, SaltMinLen - 1)

(* v >> (8 * k) *)
RECURSIVE ShiftRightBytes(_, _)
ShiftRightBytes(v, k) == IF k = 0 THEN v ELSE ShiftRightBytes(v \div 256, k - 1)

(* binary.BigEndian.PutUint64 *)
PutUint64(v) == [i \in 1..PriceBytes |-> ShiftRightBytes(v, PriceBytes - i) % 256]

(* SHAKE256 with n bytes of output, as a collision-free function of the    *)
(* absorbed data: the digest is identified by its length and preimage.     *)
(* The data is the list of chunks written; a DER certificate delimits      *)
(* itself and the price has a fixed width, so the chunks determine the     *)
(* concatenation and the concatenation the chunks.                         *)
Shake256(data, n) == [n |-> n, pre |-> data]

hashBidLittleEndian(cert, bidPrice, salt) ==
    Shake256(<<cert, [i \in 1..PriceBytes |-> ShiftRightBytes(bidPrice, i - 1) % 256], salt>>,
             CommitLen)

hashBid(cert, bidPrice, salt) ==
    Shake256(<<cert, PutUint64(bidPrice), salt>>, CommitLen)

(* The bidder's client: setBigUint64 (big endian) and the SHAKE256 digest  *)
(* of the client certificate, the encoded price and the salt, 512 bits.    *)
uint64EncodeBidEndian(n) == [i \in 1..8 |-> ShiftRightBytes(n, 8 - i) % 256]

Commitment(clientID, bidPrice, salt) ==
    Shake256(<<clientID, uint64EncodeBidEndian(bidPrice), salt>>, 64)

(* hex.EncodeToString / hex.DecodeString: a hex string is well formed or   *)
(* not; decoding a well-formed one gives back the encoded bytes.           *)
HexEncode(bytes) == [ok |-> TRUE, bytes |-> bytes]
BadHexSalt == [ok |-> FALSE, bytes |-> Salt(0, 0)]
BadHexCommit == [ok |-> FALSE, bytes |-> [n |-> 0, pre |-> <<>>]]
HexDecodeErr(h) == ~h.ok
HexDecode(h) == h.bytes

(* pem.EncodeToMemory / pem.Decode of a CERTIFICATE block *)
certDerToPem(der) == [Type |-> "CERTIFICATE", Bytes |-> der]
certPemToDer(pem) == pem.Bytes

(***************************************************************************)
(* World state                                                             *)
(***************************************************************************)
VARIABLES
    ledger,   \* world state: auction name -> stored Auction
    event,    \* the chaincode event set by the last transaction (<<>> if none)
    last,     \* the last transaction proposal: function, caller, arguments, error
    peer,     \* the write and event a second endorsing peer simulated for it
    pending   \* client -> its transaction endorsed and not yet committed (<<>> if none)

vars == <<ledger, event, last, peer, pending>>

doesAuctionExist(l, auctionName) == auctionName \in DOMAIN l

(* getAuction: json.Unmarshal of an absent (nil) value is an error *)
getAuctionErr(l, auctionName) == auctionName \notin DOMAIN l
getAuction(l, auctionName) == l[auctionName]

putAuctionOneKey(l, auction) ==
    [n \in DOMAIN l \cup {auction.Name} |-> auction]

putAuction(l, auction) ==
    [n \in DOMAIN l \cup {auction.Name} |-> IF n = auction.Name THEN auction ELSE l[n]]

(* The result of simulating one transaction: error or not, the auction     *)
(* written with PutState (<<>> if none), the event set (<<>> if none).     *)
Fail == [err |-> TRUE, put |-> <<>>, event |-> <<>>]
NoOp == [err |-> FALSE, put |-> <<>>, event |-> <<>>]
Done(auction, ev) == [err |-> FALSE, put |-> <<auction>>, event |-> ev]

AuctionSummary(auction, result) ==
    [Name |-> auction.Name, Seller |-> auction.Seller, Status |-> auction.Status,
     DirectBuyPrice |-> auction.DirectBuyPrice, Result |-> result]

AuctionResult(winner, directBuy, hammerPrice) ==
    [Winner |-> winner, DirectBuy |-> directBuy, HammerPrice |-> hammerPrice]

(***************************************************************************)
(* Seller transactions                                                     *)
(***************************************************************************)
CreateAuctionTxOverwrite(l, caller, auctionName, directBuyPrice) ==
    LET auction == [Name |-> auctionName, Seller |-> caller, Status |-> Open,
                    DirectBuyPrice |-> directBuyPrice, Bids |-> <<>>,
                    Winner |-> Nil, HammerPrice |-> 0]
    IN {Done(auction, <<AuctionSummary(auction, <<>>)>>)}

CreateAuctionTxReserve(l, caller, auctionName, directBuyPrice) ==
    IF doesAuctionExist(l, auctionName) THEN {Fail}
    ELSE LET auction == [Name |-> auctionName, Seller |-> caller, Status |-> Open,
                         DirectBuyPrice |-> directBuyPrice, Bids |-> <<>>,
                         Winner |-> Nil, HammerPrice |-> directBuyPrice]
         IN {Done(auction, <<AuctionSummary(auction, <<>>)>>)}

CreateAuctionTx(l, caller, auctionName, directBuyPrice) ==
    IF doesAuctionExist(l, auctionName) THEN {Fail}
    ELSE LET auction == [Name |-> auctionName, Seller |-> caller, Status |-> Open,
                         DirectBuyPrice |-> directBuyPrice, Bids |-> <<>>,
                         Winner |-> Nil, HammerPrice |-> 0]
         IN {Done(auction, <<AuctionSummary(auction, <<>>)>>)}

CloseAuctionTxAnyStatus(l, caller, auctionName) ==
    IF getAuctionErr(l, auctionName) THEN {Fail}
    ELSE LET auction == getAuction(l, auctionName) IN
         IF auction.Seller # caller THEN {Fail}
         ELSE LET closed == [auction EXCEPT !.Status = Closed]
              IN {Done(closed, <<AuctionSummary(closed, <<>>)>>)}

CloseAuctionTxNoOpFirst(l, caller, auctionName) ==
    IF getAuctionErr(l, auctionName) THEN {Fail}
    ELSE LET auction == getAuction(l, auctionName) IN
         IF auction.Status # Open THEN {NoOp}
         ELSE IF auction.Seller # caller THEN {Fail}
         ELSE LET closed == [auction EXCEPT !.Status = Closed]
              IN {Done(closed, <<AuctionSummary(closed, <<>>)>>)}

CloseAuctionTxRewrite(l, caller, auctionName) ==
    IF getAuctionErr(l, auctionName) THEN {Fail}
    ELSE LET auction == getAuction(l, auctionName) IN
         IF auction.Seller # caller THEN {Fail}
         ELSE IF auction.Status # Open
              THEN {Done(auction, <<AuctionSummary(auction, <<>>)>>)}
         ELSE LET closed == [auction EXCEPT !.Status = Closed]
              IN {Done(closed, <<AuctionSummary(closed, <<>>)>>)}

CloseAuctionTxSilent(l, caller, auctionName) ==
    IF getAuctionErr(l, auctionName) THEN {Fail}
    ELSE LET auction == getAuction(l, auctionName) IN
         IF auction.Seller # caller THEN {Fail}
         ELSE IF auction.Status # Open THEN {NoOp}
         ELSE {Done([auction EXCEPT !.Status = Closed], <<>>)}

CloseAuctionTxMissingNoOp(l, caller, auctionName) ==
    IF getAuctionErr(l, auctionName) THEN {NoOp}
    ELSE LET auction == getAuction(l, auctionName) IN
         IF auction.Seller # caller THEN {Fail}
         ELSE IF auction.Status # Open THEN {NoOp}
         ELSE LET closed == [auction EXCEPT !.Status = Closed]
              IN {Done(closed, <<AuctionSummary(closed, <<>>)>>)}

CloseAuctionTx(l, caller, auctionName) ==
    IF getAuctionErr(l, auctionName) THEN {Fail}
    ELSE LET auction == getAuction(l, auctionName) IN
         IF auction.Seller # caller THEN {Fail}
         ELSE IF auction.Status # Open THEN {NoOp}
         ELSE LET closed == [auction EXCEPT !.Status = Closed]
              IN {Done(closed, <<AuctionSummary(closed, <<>>)>>)}

AllRevealedUnchecked(bids) == TRUE

AllRevealedFirst(bids) == bids = <<>> \/ bids[1].BidPrice # 0

(* for i := range auction.Bids: the first hidden bid aborts the loop *)
AllRevealed(bids) == \A i \in DOMAIN bids : bids[i].BidPrice # 0

(* buyerToBid: PEM certificate of the buyer -> the highest of their bids,  *)
(* built by scanning the first k bids in order.                            *)
RECURSIVE buyerToBidUpTo(_, _)
buyerToBidUpTo(bids, k) ==
    IF k = 0 THEN <<>>
    ELSE LET m == buyerToBidUpTo(bids, k - 1)
             bid == bids[k]
             pem == certDerToPem(bid.Buyer)
         IN IF pem \notin DOMAIN m \/ bid.BidPrice > m[pem]
            THEN [q \in DOMAIN m \cup {pem} |-> IF q = pem THEN bid.BidPrice ELSE m[q]]
            ELSE m

buyerToBidLatest(bids) ==
    [pem \in {certDerToPem(bids[i].Buyer) : i \in DOMAIN bids} |->
        LET own == {i \in DOMAIN bids : certDerToPem(bids[i].Buyer) = pem}
        IN bids[CHOOSE i \in own : \A j \in own : i >= j].BidPrice]

buyerToBid(bids) == buyerToBidUpTo(bids, Len(bids))

(* bidPriceToBuyer after the range over the map (any order) and the        *)
(* unstable sort.Slice by descending BidPrice: every arrangement of the    *)
(* map's entries in which the prices do not increase.                      *)
BidPriceBuyerPairs(m) ==
    {[BidPrice |-> m[pem], Buyer |-> certPemToDer(pem)] : pem \in DOMAIN m}

SortedSlicesAscending(m) ==
    LET pairs == BidPriceBuyerPairs(m)
        n == Cardinality(pairs)
    IN {s \in [1..n -> pairs] :
            /\ \A i, j \in 1..n : i # j => s[i] # s[j]
            /\ \A i \in 1..n : \A j \in 1..n : i < j => s[i].BidPrice <= s[j].BidPrice}

SortedSlicesUnsorted(m) ==
    LET pairs == BidPriceBuyerPairs(m)
        n == Cardinality(pairs)
    IN {s \in [1..n -> pairs] : \A i, j \in 1..n : i # j => s[i] # s[j]}

SortedSlices(m) ==
    LET pairs == BidPriceBuyerPairs(m)
        n == Cardinality(pairs)
    IN {s \in [1..n -> pairs] :
            /\ \A i, j \in 1..n : i # j => s[i] # s[j]
            /\ \A i \in 1..n : \A j \in 1..n : i < j => s[i].BidPrice >= s[j].BidPrice}

hammerPriceHighest(s) == s[1].BidPrice

hammerPriceLowest(s) == s[Len(s)].BidPrice

hammerPriceNoneAlone(s) ==
    IF Len(s) > 1 THEN s[2].BidPrice ELSE 0

hammerPrice(s) ==
    IF Len(s) > 1 THEN s[2].BidPrice ELSE s[1].BidPrice

(* the loop counting the entries before the first one below highestPrice *)
RECURSIVE CountCandidates(_, _, _)
CountCandidates(s, i, highestPrice) ==
    IF i > Len(s) THEN 0
    ELSE IF s[i].BidPrice < highestPrice THEN 0
    ELSE 1 + CountCandidates(s, i + 1, highestPrice)

numberOfCandidatesAll(s) == Len(s)

numberOfCandidates(s) == CountCandidates(s, 1, s[1].BidPrice)

(* rand.Int(rand.Reader, numberOfCandidates): any index in [0, n) *)
WinningCandidates(s) == 0..(numberOfCandidates(s) - 1)

EndedByUnflagged(auction, winner, price) ==
    LET ended == [auction EXCEPT !.HammerPrice = price, !.Winner = winner,
                                 !.Status = Ended]
    IN Done(ended, <<AuctionSummary(ended, <<AuctionResult(ended.Winner, TRUE,
                                                          ended.HammerPrice)>>)>>)

EndedBy(auction, winner, price) ==
    LET ended == [auction EXCEPT !.HammerPrice = price, !.Winner = winner,
                                 !.Status = Ended]
    IN Done(ended, <<AuctionSummary(ended, <<AuctionResult(ended.Winner, FALSE,
                                                          ended.HammerPrice)>>)>>)

EndAuctionTxNeedsBids(l, caller, auctionName) ==
    IF getAuctionErr(l, auctionName) THEN {Fail}
    ELSE LET auction == getAuction(l, auctionName) IN
         IF auction.Seller # caller THEN {Fail}
         ELSE IF auction.Status = Ended THEN {NoOp}
         ELSE IF ~AllRevealed(auction.Bids) THEN {Fail}
         ELSE LET m == buyerToBid(auction.Bids) IN
              IF DOMAIN m = {} THEN {Fail}
              ELSE UNION {{EndedBy(auction, s[w + 1].Buyer, hammerPrice(s)) :
                              w \in WinningCandidates(s)} : s \in SortedSlices(m)}

EndAuctionTxRedraw(l, caller, auctionName) ==
    IF getAuctionErr(l, auctionName) THEN {Fail}
    ELSE LET auction == getAuction(l, auctionName) IN
         IF auction.Seller # caller THEN {Fail}
         ELSE IF ~AllRevealed(auction.Bids) THEN {Fail}
         ELSE LET m == buyerToBid(auction.Bids) IN
              IF DOMAIN m = {} THEN {EndedBy(auction, Nil, 0)}
              ELSE UNION {{EndedBy(auction, s[w + 1].Buyer, hammerPrice(s)) :
                              w \in WinningCandidates(s)} : s \in SortedSlices(m)}

EndAuctionTxClosedOnly(l, caller, auctionName) ==
    IF getAuctionErr(l, auctionName) THEN {Fail}
    ELSE LET auction == getAuction(l, auctionName) IN
         IF auction.Seller # caller THEN {Fail}
         ELSE IF auction.Status = Ended THEN {NoOp}
         ELSE IF auction.Status = Open THEN {Fail}
         ELSE IF ~AllRevealed(auction.Bids) THEN {Fail}
         ELSE LET m == buyerToBid(auction.Bids) IN
              IF DOMAIN m = {} THEN {EndedBy(auction, Nil, 0)}
              ELSE UNION {{EndedBy(auction, s[w + 1].Buyer, hammerPrice(s)) :
                              w \in WinningCandidates(s)} : s \in SortedSlices(m)}

EndAuctionTx(l, caller, auctionName) ==
    IF getAuctionErr(l, auctionName) THEN {Fail}
    ELSE LET auction == getAuction(l, auctionName) IN
         IF auction.Seller # caller THEN {Fail}
         ELSE IF auction.Status = Ended THEN {NoOp}
         ELSE IF ~AllRevealed(auction.Bids) THEN {Fail}
         ELSE LET m == buyerToBid(auction.Bids) IN
              IF DOMAIN m = {} THEN {EndedBy(auction, Nil, 0)}
              ELSE UNION {{EndedBy(auction, s[w + 1].Buyer, hammerPrice(s)) :
                              w \in WinningCandidates(s)} : s \in SortedSlices(m)}

(* EndAuction when rand.Int returns the index w: the outcomes that remain, *)
(* one for every order the range over the map and the sort can leave the   *)
(* slice in.  The paths that draw no number do not depend on w.            *)
EndAuctionTxDrawn(l, caller, auctionName, w) ==
    IF getAuctionErr(l, auctionName) THEN {Fail}
    ELSE LET auction == getAuction(l, auctionName) IN
         IF auction.Seller # caller THEN {Fail}
         ELSE IF auction.Status = Ended THEN {NoOp}
         ELSE IF ~AllRevealed(auction.Bids) THEN {Fail}
         ELSE LET m == buyerToBid(auction.Bids) IN
              IF DOMAIN m = {} THEN {EndedBy(auction, Nil, 0)}
              ELSE {EndedBy(auction, s[w + 1].Buyer, hammerPrice(s)) :
                       s \in {x \in SortedSlices(m) : w \in WinningCandidates(x)}}

(***************************************************************************)
(* Bidder transactions                                                     *)
(***************************************************************************)
BidTxAnyStatus(l, caller, auctionName, hiddenCommitHex) ==
    IF HexDecodeErr(hiddenCommitHex) THEN {Fail}
    ELSE LET hiddenCommit == HexDecode(hiddenCommitHex) IN
         IF hiddenCommit.n # CommitLen THEN {Fail}
         ELSE IF getAuctionErr(l, auctionName) THEN {Fail}
         ELSE LET auction == getAuction(l, auctionName) IN
              {Done([auction EXCEPT !.Bids = Append(@, [Buyer |-> caller, BidPrice |-> 0,
                                                        HiddenCommit |-> hiddenCommit])],
                    <<>>)}

BidTxMinLen(l, caller, auctionName, hiddenCommitHex) ==
    IF HexDecodeErr(hiddenCommitHex) THEN {Fail}
    ELSE LET hiddenCommit == HexDecode(hiddenCommitHex) IN
         IF hiddenCommit.n < CommitLen THEN {Fail}
         ELSE IF getAuctionErr(l, auctionName) THEN {Fail}
         ELSE LET auction == getAuction(l, auctionName) IN
              IF auction.Status # Open THEN {Fail}
              ELSE {Done([auction EXCEPT !.Bids = Append(@, [Buyer |-> caller, BidPrice |-> 0,
                                                             HiddenCommit |-> hiddenCommit])],
                         <<>>)}

BidTxPrepend(l, caller, auctionName, hiddenCommitHex) ==
    IF HexDecodeErr(hiddenCommitHex) THEN {Fail}
    ELSE LET hiddenCommit == HexDecode(hiddenCommitHex) IN
         IF hiddenCommit.n # CommitLen THEN {Fail}
         ELSE IF getAuctionErr(l, auctionName) THEN {Fail}
         ELSE LET auction == getAuction(l, auctionName) IN
              IF auction.Status # Open THEN {Fail}
              ELSE {Done([auction EXCEPT !.Bids = <<[Buyer |-> caller, BidPrice |-> 0,
                                                     HiddenCommit |-> hiddenCommit]>> \o @],
                         <<>>)}

BidTx(l, caller, auctionName, hiddenCommitHex) ==
    IF HexDecodeErr(hiddenCommitHex) THEN {Fail}
    ELSE LET hiddenCommit == HexDecode(hiddenCommitHex) IN
         IF hiddenCommit.n # CommitLen THEN {Fail}
         ELSE IF getAuctionErr(l, auctionName) THEN {Fail}
         ELSE LET auction == getAuction(l, auctionName) IN
              IF auction.Status # Open THEN {Fail}
              ELSE {Done([auction EXCEPT !.Bids = Append(@, [Buyer |-> caller, BidPrice |-> 0,
                                                             HiddenCommit |-> hiddenCommit])],
                         <<>>)}

RevealedBidsUnverified(bids, caller, bidPrice, bidHash) ==
    [i \in DOMAIN bids |->
        IF bids[i].Buyer = caller /\ bids[i].BidPrice = 0
        THEN [bids[i] EXCEPT !.BidPrice = bidPrice]
        ELSE bids[i]]

RevealedBidsOfCaller(bids, caller, bidPrice, bidHash) ==
    LET found == \E i \in DOMAIN bids :
                    /\ bids[i].Buyer = caller /\ bids[i].BidPrice = 0
                    /\ bids[i].HiddenCommit = bidHash
    IN [i \in DOMAIN bids |->
           IF found /\ bids[i].Buyer = caller /\ bids[i].BidPrice = 0
           THEN [bids[i] EXCEPT !.BidPrice = bidPrice]
           ELSE bids[i]]

RevealedBidsOverwrite(bids, caller, bidPrice, bidHash) ==
    [i \in DOMAIN bids |->
        IF bids[i].Buyer = caller /\ (bids[i].BidPrice # 0 \/ bids[i].HiddenCommit = bidHash)
        THEN [bids[i] EXCEPT !.BidPrice = bidPrice]
        ELSE bids[i]]

RevealedBids(bids, caller, bidPrice, bidHash) ==
    [i \in DOMAIN bids |->
        IF bids[i].Buyer = caller /\ bids[i].BidPrice = 0 /\ bids[i].HiddenCommit = bidHash
        THEN [bids[i] EXCEPT !.BidPrice = bidPrice]
        ELSE bids[i]]

OpenBidTxMustMatch(l, caller, auctionName, bidPrice, saltHex) ==
    IF bidPrice = 0 THEN {Fail}
    ELSE IF HexDecodeErr(saltHex) THEN {Fail}
    ELSE LET salt == HexDecode(saltHex) IN
         IF salt.len < SaltMinLen THEN {Fail}
         ELSE IF getAuctionErr(l, auctionName) THEN {Fail}
         ELSE LET auction == getAuction(l, auctionName)
                  bidHash == hashBid(caller, bidPrice, salt)
                  bids == RevealedBids(auction.Bids, caller, bidPrice, bidHash)
              IN IF bids = auction.Bids THEN {Fail}
                 ELSE {Done([auction EXCEPT !.Bids = bids], <<>>)}

OpenBidTxAnySalt(l, caller, auctionName, bidPrice, saltHex) ==
    IF bidPrice = 0 THEN {Fail}
    ELSE IF HexDecodeErr(saltHex) THEN {Fail}
    ELSE LET salt == HexDecode(saltHex) IN
         IF getAuctionErr(l, auctionName) THEN {Fail}
         ELSE LET auction == getAuction(l, auctionName)
                  bidHash == hashBid(caller, bidPrice, salt)
              IN {Done([auction EXCEPT !.Bids = RevealedBids(@, caller, bidPrice, bidHash)],
                       <<>>)}

OpenBidTxClosedOnly(l, caller, auctionName, bidPrice, saltHex) ==
    IF bidPrice = 0 THEN {Fail}
    ELSE IF HexDecodeErr(saltHex) THEN {Fail}
    ELSE LET salt == HexDecode(saltHex) IN
         IF salt.len < SaltMinLen THEN {Fail}
         ELSE IF getAuctionErr(l, auctionName) THEN {Fail}
         ELSE LET auction == getAuction(l, auctionName)
                  bidHash == hashBid(caller, bidPrice, salt)
              IN IF auction.Status # Closed THEN {Fail}
                 ELSE {Done([auction EXCEPT !.Bids = RevealedBids(@, caller, bidPrice, bidHash)],
                            <<>>)}

OpenBidTxLongerSalt(l, caller, auctionName, bidPrice, saltHex) ==
    IF bidPrice = 0 THEN {Fail}
    ELSE IF HexDecodeErr(saltHex) THEN {Fail}
    ELSE LET salt == HexDecode(saltHex) IN
         IF salt.len <= SaltMinLen THEN {Fail}
         ELSE IF getAuctionErr(l, auctionName) THEN {Fail}
         ELSE LET auction == getAuction(l, auctionName)
                  bidHash == hashBid(caller, bidPrice, salt)
              IN {Done([auction EXCEPT !.Bids = RevealedBids(@, caller, bidPrice, bidHash)],
                       <<>>)}

OpenBidTx(l, caller, auctionName, bidPrice, saltHex) ==
    IF bidPrice = 0 THEN {Fail}
    ELSE IF HexDecodeErr(saltHex) THEN {Fail}
    ELSE LET salt == HexDecode(saltHex) IN
         IF salt.len < SaltMinLen THEN {Fail}
         ELSE IF getAuctionErr(l, auctionName) THEN {Fail}
         ELSE LET auction == getAuction(l, auctionName)
                  bidHash == hashBid(caller, bidPrice, salt)
              IN {Done([auction EXCEPT !.Bids = RevealedBids(@, caller, bidPrice, bidHash)],
                       <<>>)}

DirectBuyTxAfterEnd(l, caller, auctionName, price) ==
    IF getAuctionErr(l, auctionName) THEN {Fail}
    ELSE LET auction == getAuction(l, auctionName) IN
         IF auction.DirectBuyPrice = 0 THEN {Fail}
         ELSE IF price < auction.DirectBuyPrice THEN {Fail}
         ELSE LET ended == [auction EXCEPT !.HammerPrice = price, !.Winner = caller,
                                           !.Status = Ended]
              IN {Done(ended, <<AuctionSummary(ended,
                                     <<AuctionResult(ended.Winner, TRUE, ended.HammerPrice)>>)>>)}

DirectBuyTxListPrice(l, caller, auctionName, price) ==
    IF getAuctionErr(l, auctionName) THEN {Fail}
    ELSE LET auction == getAuction(l, auctionName) IN
         IF auction.Status = Ended THEN {Fail}
         ELSE IF auction.DirectBuyPrice = 0 THEN {Fail}
         ELSE IF price < auction.DirectBuyPrice THEN {Fail}
         ELSE LET ended == [auction EXCEPT !.HammerPrice = auction.DirectBuyPrice,
                                           !.Winner = caller, !.Status = Ended]
              IN {Done(ended, <<AuctionSummary(ended,
                                     <<AuctionResult(ended.Winner, TRUE, ended.HammerPrice)>>)>>)}

DirectBuyTxAnyPrice(l, caller, auctionName, price) ==
    IF getAuctionErr(l, auctionName) THEN {Fail}
    ELSE LET auction == getAuction(l, auctionName) IN
         IF auction.Status = Ended THEN {Fail}
         ELSE IF auction.DirectBuyPrice = 0 THEN {Fail}
         ELSE LET ended == [auction EXCEPT !.HammerPrice = price, !.Winner = caller,
                                           !.Status = Ended]
              IN {Done(ended, <<AuctionSummary(ended,
                                     <<AuctionResult(ended.Winner, TRUE, ended.HammerPrice)>>)>>)}

DirectBuyTxTransfers(l, caller, auctionName, price) ==
    IF getAuctionErr(l, auctionName) THEN {Fail}
    ELSE LET auction == getAuction(l, auctionName) IN
         IF auction.Status = Ended THEN {Fail}
         ELSE IF auction.DirectBuyPrice = 0 THEN {Fail}
         ELSE IF price < auction.DirectBuyPrice THEN {Fail}
         ELSE LET ended == [auction EXCEPT !.HammerPrice = price, !.Winner = caller,
                                           !.Seller = caller, !.Status = Ended]
              IN {Done(ended, <<AuctionSummary(ended,
                                     <<AuctionResult(ended.Winner, TRUE, ended.HammerPrice)>>)>>)}

DirectBuyTx(l, caller, auctionName, price) ==
    IF getAuctionErr(l, auctionName) THEN {Fail}
    ELSE LET auction == getAuction(l, auctionName) IN
         IF auction.Status = Ended THEN {Fail}
         ELSE IF auction.DirectBuyPrice = 0 THEN {Fail}
         ELSE IF price < auction.DirectBuyPrice THEN {Fail}
         ELSE LET ended == [auction EXCEPT !.HammerPrice = price, !.Winner = caller,
                                           !.Status = Ended]
              IN {Done(ended, <<AuctionSummary(ended,
                                     <<AuctionResult(ended.Winner, TRUE, ended.HammerPrice)>>)>>)}

(***************************************************************************)
(* Transaction proposals the clients submit                                *)
(***************************************************************************)
Prices == {1, 2}
DirectBuyPrices == {0, 2}
OfferedPrices == {1, 2, 3}
Reveals ==
    {<<p, HexEncode(GoodSalt)>> : p \in Prices \cup {0}}
        \cup {<<1, HexEncode(ShortSalt)>>, <<1, BadHexSalt>>}
BadLenCommit == [n |-> CommitLen - 1, pre |-> <<>>]
LongCommit == [n |-> CommitLen + 1, pre |-> <<>>]

(* What a bidder may submit as hiddenCommitHex: a commitment to one of the *)
(* prices under the bidder's own certificate, a commitment built with      *)
(* another bidder's certificate, 63 bytes, 65 bytes, or a malformed hex    *)
(* string.                                                                 *)
CommitHexes(caller) ==
    {HexEncode(Commitment(caller, p, GoodSalt)) : p \in Prices}
        \cup {HexEncode(Commitment(c, 1, GoodSalt)) : c \in Bidders \ {caller}}
        \cup {HexEncode(BadLenCommit), HexEncode(LongCommit), BadHexCommit}

Proposal(op, caller, auctionName, price, salt, commit) ==
    [op |-> op, caller |-> caller, name |-> auctionName, price |-> price,
     salt |-> salt, commit |-> commit, err |-> FALSE]

CommittedDespiteError(l, r) == IF Len(r.put) = 0 THEN l ELSE putAuction(l, r.put[1])

(* One transaction: the committing peer simulates the proposal; PutState   *)
(* goes to the write set of the simulation, which is applied to the world  *)
(* state when the transaction returns no error.                            *)
Committed(l, r) == IF r.err \/ Len(r.put) = 0 THEN l ELSE putAuction(l, r.put[1])

Init ==
    /\ ledger = <<>>
    /\ event = <<>>
    /\ last = Proposal("init", Nil, "", 0, BadHexSalt, BadHexCommit)
    /\ peer = NoOp
    /\ pending = [c \in Certs |-> <<>>]

(* In every action r is the committing peer's simulation and r2 that of a  *)
(* second endorsing peer on the same world state.                          *)
CreateAuction(caller, auctionName, directBuyPrice) ==
    \E r, r2 \in CreateAuctionTx(ledger, caller, auctionName, directBuyPrice) :
        /\ ledger' = Committed(ledger, r)
        /\ event' = r.event
        /\ last' = [Proposal("CreateAuction", caller, auctionName, directBuyPrice,
                             BadHexSalt, BadHexCommit) EXCEPT !.err = r.err]
        /\ peer' = r2
        /\ UNCHANGED pending

CloseAuction(caller, auctionName) ==
    \E r, r2 \in CloseAuctionTx(ledger, caller, auctionName) :
        /\ ledger' = Committed(ledger, r)
        /\ event' = r.event
        /\ last' = [Proposal("CloseAuction", caller, auctionName, 0,
                             BadHexSalt, BadHexCommit) EXCEPT !.err = r.err]
        /\ peer' = r2
        /\ UNCHANGED pending

EndAuction(caller, auctionName) ==
    \E r, r2 \in EndAuctionTx(ledger, caller, auctionName) :
        /\ ledger' = Committed(ledger, r)
        /\ event' = r.event
        /\ last' = [Proposal("EndAuction", caller, auctionName, 0,
                             BadHexSalt, BadHexCommit) EXCEPT !.err = r.err]
        /\ peer' = r2
        /\ UNCHANGED pending

(* The model stops accepting bids at MaxBids entries per auction. *)
Bid(caller, auctionName, hiddenCommitHex) ==
    \E r, r2 \in BidTx(ledger, caller, auctionName, hiddenCommitHex) :
        /\ IF Len(r.put) = 0 THEN TRUE ELSE Len(r.put[1].Bids) <= MaxBids
        /\ ledger' = Committed(ledger, r)
        /\ event' = r.event
        /\ last' = [Proposal("Bid", caller, auctionName, 0,
                             BadHexSalt, hiddenCommitHex) EXCEPT !.err = r.err]
        /\ peer' = r2
        /\ UNCHANGED pending

OpenBid(caller, auctionName, bidPrice, saltHex) ==
    \E r, r2 \in OpenBidTx(ledger, caller, auctionName, bidPrice, saltHex) :
        /\ ledger' = Committed(ledger, r)
        /\ event' = r.event
        /\ last' = [Proposal("OpenBid", caller, auctionName, bidPrice,
                             saltHex, BadHexCommit) EXCEPT !.err = r.err]
        /\ peer' = r2
        /\ UNCHANGED pending

DirectBuy(caller, auctionName, price) ==
    \E r, r2 \in DirectBuyTx(ledger, caller, auctionName, price) :
        /\ ledger' = Committed(ledger, r)
        /\ event' = r.event
        /\ last' = [Proposal("DirectBuy", caller, auctionName, price,
                             BadHexSalt, BadHexCommit) EXCEPT !.err = r.err]
        /\ peer' = r2
        /\ UNCHANGED pending

Auctions == {"n1"}

Next ==
    \/ \E c \in Sellers, n \in Auctions, d \in DirectBuyPrices : CreateAuction(c, n, d)
    \/ \E c \in Certs, n \in Auctions : CloseAuction(c, n)
    \/ \E c \in Certs, n \in Auctions : EndAuction(c, n)
    \/ \E c \in Bidders, n \in Auctions : \E h \in CommitHexes(c) : Bid(c, n, h)
    \/ \E c \in Bidders, n \in Auctions, r \in Reveals : OpenBid(c, n, r[1], r[2])
    \/ \E c \in Certs, n \in Auctions, p \in OfferedPrices : DirectBuy(c, n, p)

Spec == Init /\ [][Next]_vars

(***************************************************************************)
(* Winner determination on its own: EndAuction applied to an auction whose *)
(* bids were all submitted and revealed (by Bid and OpenBid, which check   *)
(* no status), drawn from every bid list of at most MaxEndBids entries.    *)
(***************************************************************************)
EndPrices == {1, 2, 3}

RevealedBid(buyer, price) ==
    [Buyer |-> buyer, BidPrice |-> price, HiddenCommit |-> Commitment(buyer, price, GoodSalt)]

RevealedBidLists ==
    UNION {[1..k -> {RevealedBid(c, p) : c \in Certs, p \in EndPrices}] : k \in 0..MaxEndBids}

InitEnd ==
    /\ \E seller \in Sellers, status \in {Open, Closed}, bids \in RevealedBidLists :
          ledger = [n \in {"n1"} |->
                       [Name |-> n, Seller |-> seller, Status |-> status,
                        DirectBuyPrice |-> 0, Bids |-> bids,
                        Winner |-> Nil, HammerPrice |-> 0]]
    /\ event = <<>>
    /\ last = Proposal("init", Nil, "", 0, BadHexSalt, BadHexCommit)
    /\ peer = NoOp
    /\ pending = [c \in Certs |-> <<>>]

NextEnd == \E c \in Certs : EndAuction(c, "n1")

SpecEnd == InitEnd /\ [][NextEnd]_vars

(***************************************************************************)
(* Two auction names and two clients, each of which may create either      *)
(* auction and call every seller transaction on both; one of them also     *)
(* bids, reveals and buys directly.                                        *)
(***************************************************************************)
Creators == {<<1>>, <<2>>}
NamesBidder == <<2>>
NamesPrice == 1
NamesOffer == 2

NextNames ==
    \/ \E c \in Creators, n \in Names, d \in DirectBuyPrices : CreateAuction(c, n, d)
    \/ \E c \in Creators, n \in Names : CloseAuction(c, n)
    \/ \E c \in Creators, n \in Names : EndAuction(c, n)
    \/ \E n \in Names :
          Bid(NamesBidder, n, HexEncode(Commitment(NamesBidder, NamesPrice, GoodSalt)))
    \/ \E n \in Names : OpenBid(NamesBidder, n, NamesPrice, HexEncode(GoodSalt))
    \/ \E c \in Creators, n \in Names : DirectBuy(c, n, NamesOffer)

SpecNames == Init /\ [][NextNames]_vars

(***************************************************************************)
(* One auction and one bidder whose client also commits to the price 0 and *)
(* commits with a salt of 63 bytes, and later tries to reveal each bid     *)
(* with the price and salt it was committed with.                          *)
(***************************************************************************)
RevealBidder == <<2>>
RevealOffer == 2
RevealInputs == {<<0, GoodSalt>>, <<1, ShortSalt>>, <<1, GoodSalt>>}

NextReveal ==
    \/ \E c \in Sellers, n \in Auctions, d \in DirectBuyPrices : CreateAuction(c, n, d)
    \/ \E c \in Sellers, n \in Auctions : CloseAuction(c, n)
    \/ \E c \in Sellers, n \in Auctions : EndAuction(c, n)
    \/ \E n \in Auctions, x \in RevealInputs :
          Bid(RevealBidder, n, HexEncode(Commitment(RevealBidder, x[1], x[2])))
    \/ \E n \in Auctions, x \in RevealInputs :
          OpenBid(RevealBidder, n, x[1], HexEncode(x[2]))
    \/ \E n \in Auctions : DirectBuy(RevealBidder, n, RevealOffer)

SpecReveal == Init /\ [][NextReveal]_vars

(***************************************************************************)
(* The same transactions on a stub whose SetEvent can return an error:     *)
(* setAuctionSummaryEvent is called after putAuction, so the simulation    *)
(* has written the auction when the transaction returns the error.         *)
(***************************************************************************)
SetEventFailed(r) == [err |-> TRUE, put |-> r.put, event |-> <<>>]

WithSetEventFailures(rs) == rs \cup {SetEventFailed(r) : r \in {x \in rs : x.event # <<>>}}

CreateAuctionSetEvent(caller, auctionName, directBuyPrice) ==
    \E r, r2 \in WithSetEventFailures(
                    CreateAuctionTx(ledger, caller, auctionName, directBuyPrice)) :
        /\ ledger' = Committed(ledger, r)
        /\ event' = r.event
        /\ last' = [Proposal("CreateAuction", caller, auctionName, directBuyPrice,
                             BadHexSalt, BadHexCommit) EXCEPT !.err = r.err]
        /\ peer' = r2
        /\ UNCHANGED pending

CloseAuctionSetEvent(caller, auctionName) ==
    \E r, r2 \in WithSetEventFailures(CloseAuctionTx(ledger, caller, auctionName)) :
        /\ ledger' = Committed(ledger, r)
        /\ event' = r.event
        /\ last' = [Proposal("CloseAuction", caller, auctionName, 0,
                             BadHexSalt, BadHexCommit) EXCEPT !.err = r.err]
        /\ peer' = r2
        /\ UNCHANGED pending

EndAuctionSetEvent(caller, auctionName) ==
    \E r, r2 \in WithSetEventFailures(EndAuctionTx(ledger, caller, auctionName)) :
        /\ ledger' = Committed(ledger, r)
        /\ event' = r.event
        /\ last' = [Proposal("EndAuction", caller, auctionName, 0,
                             BadHexSalt, BadHexCommit) EXCEPT !.err = r.err]
        /\ peer' = r2
        /\ UNCHANGED pending

DirectBuySetEvent(caller, auctionName, price) ==
    \E r, r2 \in WithSetEventFailures(DirectBuyTx(ledger, caller, auctionName, price)) :
        /\ ledger' = Committed(ledger, r)
        /\ event' = r.event
        /\ last' = [Proposal("DirectBuy", caller, auctionName, price,
                             BadHexSalt, BadHexCommit) EXCEPT !.err = r.err]
        /\ peer' = r2
        /\ UNCHANGED pending

SetEventCallers == Sellers \cup {RevealBidder}

NextSetEvent ==
    \/ \E c \in Sellers, n \in Auctions, d \in DirectBuyPrices :
          CreateAuctionSetEvent(c, n, d)
    \/ \E c \in SetEventCallers, n \in Auctions : CloseAuctionSetEvent(c, n)
    \/ \E c \in SetEventCallers, n \in Auctions : EndAuctionSetEvent(c, n)
    \/ \E n \in Auctions, x \in RevealInputs :
          Bid(RevealBidder, n, HexEncode(Commitment(RevealBidder, x[1], x[2])))
    \/ \E n \in Auctions, x \in RevealInputs :
          OpenBid(RevealBidder, n, x[1], HexEncode(x[2]))
    \/ \E c \in SetEventCallers, n \in Auctions, p \in OfferedPrices :
          DirectBuySetEvent(c, n, p)

SpecSetEvent == Init /\ [][NextSetEvent]_vars

(***************************************************************************)
(* Commit and reveal with prices of one and of two significant bytes and   *)
(* salts of 64 and of 65 bytes: the bidders' clients compute the           *)
(* commitments, the chaincode recomputes them in OpenBid.                  *)
(***************************************************************************)
RoundTripPrices == {1, 256}
LongSalt == Salt(7, SaltMinLen + 1)
RoundTripSalts == {GoodSalt, LongSalt}

NextRoundTrip ==
    \/ \E c \in Sellers, n \in Auctions : CreateAuction(c, n, 0)
    \/ \E c \in Sellers, n \in Auctions : CloseAuction(c, n)
    \/ \E c \in Bidders, n \in Auctions, p \in RoundTripPrices, x \in RoundTripSalts :
          Bid(c, n, HexEncode(Commitment(c, p, x)))
    \/ \E c \in Bidders, n \in Auctions, p \in RoundTripPrices, x \in RoundTripSalts :
          OpenBid(c, n, p, HexEncode(x))

SpecRoundTrip == Init /\ [][NextRoundTrip]_vars

(***************************************************************************)
(* The command line interaction example of the README: the seller creates  *)
(* an auction with directBuyPrice 100, bidder1 bids 30 and bidder2 bids    *)
(* 50, the seller closes, the bids are revealed, the seller ends.          *)
(***************************************************************************)
ReadmeSeller == <<1>>
ReadmeBidder1 == <<2>>
ReadmeBidder2 == <<3>>
ReadmeDirectBuyPrice == 100
ReadmeBids == {<<ReadmeBidder1, 30>>, <<ReadmeBidder2, 50>>}

NextReadme ==
    \/ \E n \in Auctions : CreateAuction(ReadmeSeller, n, ReadmeDirectBuyPrice)
    \/ \E n \in Auctions, b \in ReadmeBids :
          Bid(b[1], n, HexEncode(Commitment(b[1], b[2], GoodSalt)))
    \/ \E n \in Auctions : CloseAuction(ReadmeSeller, n)
    \/ \E n \in Auctions, b \in ReadmeBids : OpenBid(b[1], n, b[2], HexEncode(GoodSalt))
    \/ \E n \in Auctions : EndAuction(ReadmeSeller, n)

SpecReadme == Init /\ [][NextReadme]_vars

(***************************************************************************)
(* An auction the seller never closes: bids are submitted and revealed     *)
(* while the auction is Open (OpenBid checks no status) and the seller     *)
(* calls EndAuction on it.                                                 *)
(***************************************************************************)
NextNeverClosed ==
    \/ \E c \in Sellers, n \in Auctions, d \in DirectBuyPrices : CreateAuction(c, n, d)
    \/ \E c \in Sellers, n \in Auctions : EndAuction(c, n)
    \/ \E n \in Auctions, x \in RevealInputs :
          Bid(RevealBidder, n, HexEncode(Commitment(RevealBidder, x[1], x[2])))
    \/ \E n \in Auctions, x \in RevealInputs :
          OpenBid(RevealBidder, n, x[1], HexEncode(x[2]))

SpecNeverClosed == Init /\ [][NextNeverClosed]_vars

(***************************************************************************)
(* Two executions of one EndAuction proposal on the same world state that  *)
(* are handed the same number by the random source: the committing peer's  *)
(* and a second one, which may range over the map and sort in another      *)
(* order.                                                                  *)
(***************************************************************************)
Draws == 0..(MaxEndBids - 1)

EndAuctionSameDraw(caller, auctionName) ==
    \E w \in Draws :
        \E r, r2 \in EndAuctionTxDrawn(ledger, caller, auctionName, w) :
            /\ ledger' = Committed(ledger, r)
            /\ event' = r.event
            /\ last' = [Proposal("EndAuction", caller, auctionName, 0,
                                 BadHexSalt, BadHexCommit) EXCEPT !.err = r.err]
            /\ peer' = r2
            /\ UNCHANGED pending
        /\ UNCHANGED pending

NextSameDraw == \E c \in Certs : EndAuctionSameDraw(c, "n1")

SpecSameDraw == InitEnd /\ [][NextSameDraw]_vars

(***************************************************************************)
(* Concurrent clients.  A client submits a transaction and waits for it:   *)
(* the proposal is simulated on the world state of that moment, the        *)
(* simulation's write and event travel with the transaction, and the       *)
(* ledger commits the transactions one at a time in the order it chooses.  *)
(* At commit a transaction whose auction was written after it was read is  *)
(* rejected and its write dropped.  A proposal whose simulation returns an *)
(* error goes back to the client and is never ordered.                     *)
(***************************************************************************)
ConcurrentPrice == 1
ConcurrentOffer == 2

Submit(prop, rs) ==
    \E r \in rs :
        /\ pending[prop.caller] = <<>>
        /\ ~r.err
        /\ pending' = [pending EXCEPT ![prop.caller] =
                           <<[prop |-> prop, put |-> r.put, event |-> r.event,
                              stale |-> FALSE]>>]
        /\ UNCHANGED <<ledger, event, last, peer>>

SubmitCreateAuction(caller, auctionName, directBuyPrice) ==
    Submit(Proposal("CreateAuction", caller, auctionName, directBuyPrice,
                    BadHexSalt, BadHexCommit),
           CreateAuctionTx(ledger, caller, auctionName, directBuyPrice))

SubmitCloseAuction(caller, auctionName) ==
    Submit(Proposal("CloseAuction", caller, auctionName, 0, BadHexSalt, BadHexCommit),
           CloseAuctionTx(ledger, caller, auctionName))

SubmitEndAuction(caller, auctionName) ==
    Submit(Proposal("EndAuction", caller, auctionName, 0, BadHexSalt, BadHexCommit),
           EndAuctionTx(ledger, caller, auctionName))

SubmitBid(caller, auctionName, hiddenCommitHex) ==
    /\ \A r \in BidTx(ledger, caller, auctionName, hiddenCommitHex) :
          IF Len(r.put) = 0 THEN TRUE ELSE Len(r.put[1].Bids) <= MaxBids
    /\ Submit(Proposal("Bid", caller, auctionName, 0, BadHexSalt, hiddenCommitHex),
              BidTx(ledger, caller, auctionName, hiddenCommitHex))

SubmitOpenBid(caller, auctionName, bidPrice, saltHex) ==
    Submit(Proposal("OpenBid", caller, auctionName, bidPrice, saltHex, BadHexCommit),
           OpenBidTx(ledger, caller, auctionName, bidPrice, saltHex))

SubmitDirectBuy(caller, auctionName, price) ==
    Submit(Proposal("DirectBuy", caller, auctionName, price, BadHexSalt, BadHexCommit),
           DirectBuyTx(ledger, caller, auctionName, price))

(* The ledger commits the transaction of client c: valid unless stale; a   *)
(* valid transaction that wrote its auction makes every other transaction  *)
(* in flight that read the same auction stale.                             *)
CommitTx(c) ==
    /\ pending[c] # <<>>
    /\ LET t == pending[c][1]
           wrote == ~t.stale /\ Len(t.put) = 1
       IN /\ ledger' = IF t.stale THEN ledger
                       ELSE Committed(ledger, [err |-> FALSE, put |-> t.put,
                                               event |-> t.event])
          /\ event' = IF t.stale THEN <<>> ELSE t.event
          /\ last' = [t.prop EXCEPT !.err = t.stale]
          /\ pending' = [d \in Certs |->
                            IF d = c \/ pending[d] = <<>> THEN <<>>
                            ELSE IF wrote /\ pending[d][1].prop.name = t.prop.name
                                 THEN <<[pending[d][1] EXCEPT !.stale = TRUE]>>
                                 ELSE pending[d]]
          /\ UNCHANGED peer

NextConcurrent ==
    \/ \E c \in Sellers, n \in Auctions : SubmitCreateAuction(c, n, ConcurrentOffer)
    \/ \E c \in Sellers, n \in Auctions : SubmitCloseAuction(c, n)
    \/ \E c \in Sellers, n \in Auctions : SubmitEndAuction(c, n)
    \/ \E c \in Bidders, n \in Auctions :
          SubmitBid(c, n, HexEncode(Commitment(c, ConcurrentPrice, GoodSalt)))
    \/ \E c \in Bidders, n \in Auctions :
          SubmitOpenBid(c, n, ConcurrentPrice, HexEncode(GoodSalt))
    \/ \E c \in Bidders, n \in Auctions : SubmitDirectBuy(c, n, ConcurrentOffer)
    \/ \E c \in Certs : CommitTx(c)

SpecConcurrent == Init /\ [][NextConcurrent]_vars

(***************************************************************************)
(* The same clients when the bidder keeps trying to reveal each of the     *)
(* bids with the price and salt it was committed with and the seller keeps *)
(* trying to end the auction: a reveal or an EndAuction that would change  *)
(* the world state is eventually submitted.  Transactions run one at a     *)
(* time.                                                                   *)
(***************************************************************************)
FairProgress ==
    /\ \A n \in Auctions, x \in RevealInputs :
          WF_vars(OpenBid(RevealBidder, n, x[1], HexEncode(x[2])))
    /\ \A c \in Sellers, n \in Auctions : WF_vars(EndAuction(c, n))

SpecProgress == Init /\ [][NextReveal]_vars /\ FairProgress

(***************************************************************************)
(* Properties                                                              *)
(***************************************************************************)
BuyersOf(a) == {a.Bids[i].Buyer : i \in DOMAIN a.Bids}

MaxOf(S) == CHOOSE x \in S : \A y \in S : x >= y

(* the highest price among the bids of bidder b *)
BidderMax(a, b) ==
    MaxOf({a.Bids[i].BidPrice : i \in {j \in DOMAIN a.Bids : a.Bids[j].Buyer = b}})

TopPrice(a) == MaxOf({BidderMax(a, b) : b \in BuyersOf(a)})

TopBidders(a) == {b \in BuyersOf(a) : BidderMax(a, b) = TopPrice(a)}

(* The last transaction was an EndAuction that took auction n to Ended:    *)
(* it succeeded and set the summary event (the no-op on an Ended auction   *)
(* sets none).                                                             *)
EndedByEndAuction(n) ==
    /\ n \in DOMAIN ledger
    /\ last.op = "EndAuction" /\ last.name = n /\ ~last.err
    /\ event # <<>>

(* C1: the status of an existing auction never decreases in any step, and  *)
(* the auction stays in the world state: the only status changes are Open  *)
(* to Closed, Open to Ended and Closed to Ended.                           *)
C1_StatusNeverDecreases ==
    [][\A n \in DOMAIN ledger :
          /\ n \in DOMAIN ledger'
          /\ ledger'[n].Status \in {Open, Closed, Ended}
          /\ ledger'[n].Status >= ledger[n].Status]_vars

C1_Witness ==
    \E n \in DOMAIN ledger :
        /\ ledger[n].Status = Ended
        /\ last.op = "CloseAuction" /\ last.name = n /\ last.caller = ledger[n].Seller
        /\ ~last.err

(* C2: after EndAuction ends an auction in which exactly one bidder holds  *)
(* the highest per-bidder maximum and another bidder exists, the winner is *)
(* that bidder, hammerPrice is the highest maximum among the other         *)
(* bidders, and the emitted result says directBuy = false.                 *)
C2_SecondPrice ==
    \A n \in DOMAIN ledger :
        LET a == ledger[n] IN
        (/\ EndedByEndAuction(n)
         /\ Cardinality(TopBidders(a)) = 1
         /\ Cardinality(BuyersOf(a)) >= 2)
        => /\ a.Status = Ended
           /\ a.Winner \in TopBidders(a)
           /\ a.HammerPrice = MaxOf({BidderMax(a, b) : b \in BuyersOf(a) \ TopBidders(a)})
           /\ event[1].Result = <<AuctionResult(a.Winner, FALSE, a.HammerPrice)>>

C2_Witness ==
    \E n \in DOMAIN ledger :
        LET a == ledger[n] IN
        /\ EndedByEndAuction(n)
        /\ Cardinality(BuyersOf(a)) = 3
        /\ Cardinality({BidderMax(a, b) : b \in BuyersOf(a)}) = 3
        /\ Len(a.Bids) = 3
        /\ a.Bids[2].BidPrice = 3

(* the highest per-bidder maximum strictly below the top price, or the top *)
(* price if there is none                                                  *)
PriceBelowTop(a) ==
    LET lower == {BidderMax(a, b) : b \in BuyersOf(a) \ TopBidders(a)}
    IN IF lower = {} THEN TopPrice(a) ELSE MaxOf(lower)

PossibleWinners(a) ==
    {r.put[1].Winner : r \in {x \in EndAuctionTx(ledger, a.Seller, a.Name) : Len(x.put) = 1}}

(* C4: when several bidders tie at the highest per-bidder maximum, the     *)
(* winner EndAuction records is one of the tied bidders, and before the    *)
(* call every tied bidder, and nobody else, is a possible outcome.         *)
C4_WinnerAmongTied ==
    \A n \in DOMAIN ledger :
        LET a == ledger[n] IN
        /\ (EndedByEndAuction(n) /\ Cardinality(TopBidders(a)) >= 2)
              => a.Winner \in TopBidders(a)
        /\ (a.Status # Ended /\ AllRevealed(a.Bids) /\ Cardinality(TopBidders(a)) >= 2)
              => PossibleWinners(a) = TopBidders(a)

C4_Witness ==
    \E n \in DOMAIN ledger :
        LET a == ledger[n] IN
        /\ EndedByEndAuction(n)
        /\ Cardinality(TopBidders(a)) = 2
        /\ Cardinality(BuyersOf(a)) = 3
        /\ a.Winner \in TopBidders(a)

(* C5: whenever a second peer simulates the same EndAuction proposal on    *)
(* the same world state, it records the same winner and hammerPrice as the *)
(* committing peer.                                                        *)
C5_ReplicasAgree ==
    (last.op = "EndAuction" /\ ~last.err /\ Len(peer.put) = 1)
        => /\ peer.put[1].Winner = ledger[last.name].Winner
           /\ peer.put[1].HammerPrice = ledger[last.name].HammerPrice

(* C6: EndAuction by the seller on an auction that is not Ended and holds  *)
(* a bid with bidPrice = 0 returns an error, changes nothing in the world  *)
(* state (status not Ended, no winner, hammerPrice 0, same bids) and sets  *)
(* no event.                                                               *)
C6_EndAuctionNeedsAllRevealed ==
    [][\A n \in DOMAIN ledger :
          (/\ last'.op = "EndAuction" /\ last'.name = n
           /\ last'.caller = ledger[n].Seller
           /\ ledger[n].Status # Ended
           /\ \E i \in DOMAIN ledger[n].Bids : ledger[n].Bids[i].BidPrice = 0)
          => /\ last'.err
             /\ ledger' = ledger
             /\ ledger'[n].Status # Ended
             /\ ledger'[n].Winner = Nil
             /\ ledger'[n].HammerPrice = 0
             /\ event' = <<>>]_vars

C6_Witness ==
    \E n \in DOMAIN ledger :
        /\ last.op = "EndAuction" /\ last.name = n /\ last.caller = ledger[n].Seller
        /\ last.err
        /\ ledger[n].Status = Closed
        /\ \E i, j \in DOMAIN ledger[n].Bids :
              ledger[n].Bids[i].BidPrice = 0 /\ ledger[n].Bids[j].BidPrice # 0

(* C7: an existing bid changes only by having its bidPrice go from 0 to p  *)
(* in an OpenBid(name, p, salt) whose caller is the bid's buyer and whose  *)
(* (caller, p, salt) reproduces the stored hiddenCommit.                   *)
C7_RevealOnlyByCommitter ==
    [][\A n \in DOMAIN ledger : \A i \in DOMAIN ledger[n].Bids :
          (/\ n \in DOMAIN ledger'
           /\ i \in DOMAIN ledger'[n].Bids
           /\ ledger'[n].Bids[i] # ledger[n].Bids[i])
          => /\ ledger[n].Bids[i].BidPrice = 0
             /\ ledger'[n].Bids[i] = [ledger[n].Bids[i] EXCEPT !.BidPrice = last'.price]
             /\ last'.op = "OpenBid" /\ last'.name = n /\ ~last'.err
             /\ last'.price # 0
             /\ last'.caller = ledger[n].Bids[i].Buyer
             /\ last'.salt.ok
             /\ ledger[n].Bids[i].HiddenCommit
                    = Commitment(last'.caller, last'.price, last'.salt.bytes)]_vars

C7_Witness ==
    \E n \in DOMAIN ledger : \E i, j \in DOMAIN ledger[n].Bids :
        /\ last.op = "OpenBid" /\ last.name = n /\ ~last.err
        /\ ledger[n].Bids[i].Buyer = last.caller
        /\ ledger[n].Bids[i].BidPrice = last.price
        /\ ledger[n].Bids[i].HiddenCommit = Commitment(last.caller, last.price, last.salt.bytes)
        /\ ledger[n].Bids[j].Buyer = last.caller
        /\ ledger[n].Bids[j].BidPrice = 0

(* C8: once an auction is Ended, no step changes its status, winner or     *)
(* hammerPrice.                                                            *)
C8_ResultWriteOnce ==
    [][\A n \in DOMAIN ledger :
          ledger[n].Status = Ended
          => /\ n \in DOMAIN ledger'
             /\ ledger'[n].Status = Ended
             /\ ledger'[n].Winner = ledger[n].Winner
             /\ ledger'[n].HammerPrice = ledger[n].HammerPrice]_vars

C8_Witness ==
    \E n \in DOMAIN ledger :
        /\ ledger[n].Status = Ended
        /\ last.op = "DirectBuy" /\ last.name = n /\ last.err
        /\ ledger[n].DirectBuyPrice # 0
        /\ last.price > ledger[n].HammerPrice
        /\ last.caller # ledger[n].Winner

(* C9: a Bid on an auction that is Closed or Ended returns an error and    *)
(* changes nothing; the bid list of an auction grows only by a Bid on an   *)
(* Open auction.                                                           *)
C9_BidOnlyWhileOpen ==
    [][\A n \in DOMAIN ledger :
          /\ (last'.op = "Bid" /\ last'.name = n /\ ledger[n].Status # Open)
                => (last'.err /\ ledger' = ledger)
          /\ (n \in DOMAIN ledger' /\ Len(ledger'[n].Bids) # Len(ledger[n].Bids))
                => /\ ledger[n].Status = Open
                   /\ last'.op = "Bid" /\ last'.name = n /\ ~last'.err
                   /\ Len(ledger'[n].Bids) = Len(ledger[n].Bids) + 1]_vars

C9_Witness ==
    \E n \in DOMAIN ledger :
        /\ last.op = "Bid" /\ last.name = n /\ last.err
        /\ last.commit.ok /\ last.commit.bytes.n = CommitLen
        /\ ledger[n].Status = Closed
        /\ Len(ledger[n].Bids) < MaxBids

(* C10: after a successful DirectBuy(name, price) the auction is Ended,    *)
(* the winner is the caller, hammerPrice is the price paid, and the        *)
(* emitted result carries them with directBuy = true.                      *)
C10_DirectBuyEnds ==
    (last.op = "DirectBuy" /\ ~last.err)
        => /\ last.name \in DOMAIN ledger
           /\ ledger[last.name].Status = Ended
           /\ ledger[last.name].Winner = last.caller
           /\ ledger[last.name].HammerPrice = last.price
           /\ event = <<AuctionSummary(ledger[last.name],
                                       <<AuctionResult(last.caller, TRUE, last.price)>>)>>

C10_Witness ==
    /\ last.op = "DirectBuy" /\ ~last.err
    /\ last.price > ledger[last.name].DirectBuyPrice
    /\ \E i, j \in DOMAIN ledger[last.name].Bids :
          /\ ledger[last.name].Bids[i].BidPrice = 0
          /\ ledger[last.name].Bids[j].BidPrice # 0

(* C11: a DirectBuy on an auction that is Ended, or whose directBuyPrice   *)
(* is 0, or with an offered price below directBuyPrice returns an error,   *)
(* changes nothing and sets no event; an auction that a DirectBuy takes to *)
(* Ended has directBuyPrice # 0 and hammerPrice >= directBuyPrice.         *)
C11_DirectBuyPreconditions ==
    [][\A n \in DOMAIN ledger :
          /\ (/\ last'.op = "DirectBuy" /\ last'.name = n
              /\ \/ ledger[n].Status = Ended
                 \/ ledger[n].DirectBuyPrice = 0
                 \/ last'.price < ledger[n].DirectBuyPrice)
                => (last'.err /\ ledger' = ledger /\ event' = <<>>)
          /\ (/\ last'.op = "DirectBuy" /\ last'.name = n /\ ~last'.err)
                => /\ ledger[n].Status # Ended
                   /\ ledger'[n].Status = Ended
                   /\ ledger'[n].DirectBuyPrice # 0
                   /\ ledger'[n].HammerPrice >= ledger'[n].DirectBuyPrice]_vars

C11_Witness ==
    \E n \in DOMAIN ledger :
        /\ last.op = "DirectBuy" /\ last.name = n /\ last.err
        /\ ledger[n].Status = Open
        /\ ledger[n].DirectBuyPrice # 0
        /\ last.price # 0
        /\ last.price < ledger[n].DirectBuyPrice
        /\ Len(ledger[n].Bids) > 0

(* C12: a CreateAuction whose name already exists returns an error, sets   *)
(* no event and leaves the world state as it was (the existing auction     *)
(* keeps its seller, status, directBuyPrice, bids, winner and              *)
(* hammerPrice), whoever calls it and whatever the auction's state.        *)
C12_CreateExistingFails ==
    [][\A n \in DOMAIN ledger :
          (last'.op = "CreateAuction" /\ last'.name = n)
          => /\ last'.err
             /\ ledger' = ledger
             /\ event' = <<>>]_vars

C12_Witness ==
    \E n \in DOMAIN ledger :
        /\ last.op = "CreateAuction" /\ last.name = n /\ last.err
        /\ last.caller # ledger[n].Seller
        /\ last.price # ledger[n].DirectBuyPrice
        /\ ledger[n].Status = Ended
        /\ ledger[n].Winner # Nil
        /\ ledger[n].HammerPrice # 0
        /\ Len(ledger[n].Bids) > 0

(* C13: a CloseAuction or EndAuction whose caller is not the auction's     *)
(* seller returns an error, sets no event and leaves the world state as it *)
(* was, in every status of the auction (also Closed and Ended, where the   *)
(* seller's own call returns without error and without effect).            *)
C13_SellerOnly ==
    [][\A n \in DOMAIN ledger :
          (/\ last'.op \in {"CloseAuction", "EndAuction"}
           /\ last'.name = n
           /\ last'.caller # ledger[n].Seller)
          => /\ last'.err
             /\ ledger' = ledger
             /\ event' = <<>>]_vars

C13_Witness ==
    \E n \in DOMAIN ledger :
        /\ last.op = "EndAuction" /\ last.name = n /\ last.err
        /\ last.caller # ledger[n].Seller
        /\ last.caller \in BuyersOf(ledger[n])
        /\ ledger[n].Status = Ended
        /\ ledger[n].Winner # last.caller

(* C14: EndAuction counts every bidder once, at the highest of that        *)
(* bidder's revealed prices: the winner's highest price is the top price,  *)
(* and hammerPrice is the highest price of the best other bidder (of the   *)
(* winner when there is no other bidder), never a lower bid of the winner. *)
C14_OneEntryPerBidder ==
    \A n \in DOMAIN ledger :
        LET a == ledger[n]
            others == BuyersOf(a) \ {a.Winner}
        IN (EndedByEndAuction(n) /\ Len(a.Bids) > 0)
           => /\ a.Winner \in BuyersOf(a)
              /\ BidderMax(a, a.Winner) = TopPrice(a)
              /\ a.HammerPrice = IF others = {} THEN BidderMax(a, a.Winner)
                                 ELSE MaxOf({BidderMax(a, b) : b \in others})

C14_Witness ==
    \E n \in DOMAIN ledger :
        LET a == ledger[n] IN
        /\ EndedByEndAuction(n)
        /\ Len(a.Bids) = 3
        /\ Cardinality(BuyersOf(a)) = 2
        /\ a.Bids[1].Buyer = a.Winner /\ a.Bids[1].BidPrice = 3
        /\ a.Bids[2].Buyer = a.Winner /\ a.Bids[2].BidPrice = 1
        /\ a.Bids[3].Buyer # a.Winner /\ a.Bids[3].BidPrice = 2
        /\ a.HammerPrice = 2

(* C15: EndAuction by the seller on an auction that is not Ended and has   *)
(* no bids succeeds: the status becomes Ended, the winner stays absent and *)
(* hammerPrice 0, nothing else changes, and the summary set as event       *)
(* carries a result with no winner, hammerPrice 0 and directBuy = false.   *)
C15_EndWithoutBids ==
    [][\A n \in DOMAIN ledger :
          (/\ last'.op = "EndAuction" /\ last'.name = n
           /\ last'.caller = ledger[n].Seller
           /\ ledger[n].Status # Ended
           /\ Len(ledger[n].Bids) = 0)
          => /\ ~last'.err
             /\ ledger' = [ledger EXCEPT ![n].Status = Ended]
             /\ ledger'[n].Winner = Nil
             /\ ledger'[n].HammerPrice = 0
             /\ event' = <<[Name |-> n, Seller |-> ledger[n].Seller, Status |-> Ended,
                            DirectBuyPrice |-> ledger[n].DirectBuyPrice,
                            Result |-> <<[Winner |-> Nil, DirectBuy |-> FALSE,
                                          HammerPrice |-> 0]>>]>>]_vars

C15_Witness ==
    \E n \in DOMAIN ledger :
        /\ last.op = "EndAuction" /\ last.name = n /\ ~last.err
        /\ event # <<>>
        /\ ledger[n].Status = Ended
        /\ Len(ledger[n].Bids) = 0
        /\ ledger[n].DirectBuyPrice # 0

(* C16: when every bid of the auction (one or several, all revealed)       *)
(* belongs to one bidder, EndAuction records that bidder as winner and     *)
(* that bidder's highest revealed price as hammerPrice.                    *)
C16_SingleBidder ==
    \A n \in DOMAIN ledger :
        LET a == ledger[n] IN
        (EndedByEndAuction(n) /\ Cardinality(BuyersOf(a)) = 1)
        => /\ a.Status = Ended
           /\ BuyersOf(a) = {a.Winner}
           /\ a.HammerPrice = MaxOf({a.Bids[i].BidPrice : i \in DOMAIN a.Bids})

C16_Witness ==
    \E n \in DOMAIN ledger :
        LET a == ledger[n] IN
        /\ EndedByEndAuction(n)
        /\ Cardinality(BuyersOf(a)) = 1
        /\ Len(a.Bids) = 3
        /\ a.Bids[1].BidPrice = 2 /\ a.Bids[2].BidPrice = 3 /\ a.Bids[3].BidPrice = 1
        /\ a.HammerPrice = 3

(* The world state after the seller of auction n calls CloseAuction on     *)
(* world state l (CloseAuction has one outcome).                           *)
AfterClose(l, n) ==
    Committed(l, CHOOSE r \in CloseAuctionTx(l, l[n].Seller, n) : TRUE)

(* C17: CloseAuction is idempotent for the seller: closing twice gives the *)
(* world state closing once gives, and a CloseAuction on an auction that   *)
(* is already Closed or Ended succeeds, keeps the status, writes nothing   *)
(* and sets no event.                                                      *)
C17_CloseIdempotent ==
    [][\A n \in DOMAIN ledger :
          /\ AfterClose(AfterClose(ledger, n), n) = AfterClose(ledger, n)
          /\ (/\ last'.op = "CloseAuction" /\ last'.name = n
              /\ last'.caller = ledger[n].Seller)
                => /\ ~last'.err
                   /\ ledger' = AfterClose(ledger, n)
                   /\ ledger[n].Status # Open
                         => /\ ledger' = ledger
                            /\ ledger'[n].Status = ledger[n].Status
                            /\ peer'.put = <<>>
                            /\ event' = <<>>]_vars

C17_Witness ==
    \E n \in DOMAIN ledger :
        /\ last.op = "CloseAuction" /\ last.name = n /\ ~last.err
        /\ last.caller = ledger[n].Seller
        /\ ledger[n].Status = Closed
        /\ event = <<>>
        /\ peer.put = <<>>
        /\ Len(ledger[n].Bids) > 0

(* C18: EndAuction by the seller on an auction that is already Ended       *)
(* (by an earlier EndAuction or by DirectBuy) succeeds and does nothing:   *)
(* winner, hammerPrice, bids and the rest of the world state stay as they  *)
(* are, nothing is written and no event is set.                            *)
C18_EndAgainNoOp ==
    [][\A n \in DOMAIN ledger :
          (/\ last'.op = "EndAuction" /\ last'.name = n
           /\ last'.caller = ledger[n].Seller
           /\ ledger[n].Status = Ended)
          => /\ ~last'.err
             /\ ledger' = ledger
             /\ ledger'[n].Winner = ledger[n].Winner
             /\ ledger'[n].HammerPrice = ledger[n].HammerPrice
             /\ ledger'[n].Bids = ledger[n].Bids
             /\ peer'.put = <<>>
             /\ event' = <<>>]_vars

C18_Witness ==
    \E n \in DOMAIN ledger :
        LET a == ledger[n] IN
        /\ last.op = "EndAuction" /\ last.name = n /\ ~last.err
        /\ last.caller = a.Seller
        /\ event = <<>>
        /\ a.Status = Ended
        /\ Len(a.Bids) > 0 /\ AllRevealed(a.Bids)
        /\ Cardinality(TopBidders(a)) = 2
        /\ a.Winner \notin BuyersOf(a)
        /\ a.HammerPrice # TopPrice(a)

(* C19: an OpenBid with a price other than 0 and a salt of at least 64     *)
(* bytes on an existing auction in which no hidden bid of the caller       *)
(* carries the commitment of (caller, price, salt) returns without error   *)
(* and leaves the world state (bids, status, winner, hammerPrice) as it    *)
(* was.                                                                    *)
C19_OpenBidNoMatch ==
    [][\A n \in DOMAIN ledger :
          (/\ last'.op = "OpenBid" /\ last'.name = n
           /\ last'.price # 0
           /\ last'.salt.ok /\ last'.salt.bytes.len >= SaltMinLen
           /\ ~\E i \in DOMAIN ledger[n].Bids :
                  /\ ledger[n].Bids[i].Buyer = last'.caller
                  /\ ledger[n].Bids[i].BidPrice = 0
                  /\ ledger[n].Bids[i].HiddenCommit
                        = Commitment(last'.caller, last'.price, last'.salt.bytes))
          => /\ ~last'.err
             /\ ledger' = ledger
             /\ event' = <<>>]_vars

C19_Witness ==
    \E n \in DOMAIN ledger : \E i, j \in DOMAIN ledger[n].Bids :
        LET own == Commitment(last.caller, last.price, last.salt.bytes) IN
        /\ last.op = "OpenBid" /\ last.name = n /\ ~last.err
        /\ last.price # 0 /\ last.salt.ok
        /\ ledger[n].Bids[i].Buyer = last.caller
        /\ ledger[n].Bids[i].BidPrice = 0
        /\ ledger[n].Bids[i].HiddenCommit # own
        /\ ledger[n].Bids[j].Buyer # last.caller
        /\ ledger[n].Bids[j].BidPrice = 0
        /\ ledger[n].Bids[j].HiddenCommit = own

(* C20: an OpenBid with price 0, or with a salt shorter than 64 bytes,      *)
(* returns an error and leaves the world state as it was, also when the    *)
(* caller holds a hidden bid committed with exactly that price and salt;   *)
(* so a bid's price only ever changes to a value other than 0, in an       *)
(* OpenBid with that price and a salt of at least 64 bytes, and a bid      *)
(* committed with price 0 or a short salt stays hidden.                    *)
C20_RejectedReveals ==
    [][\A n \in DOMAIN ledger :
          /\ (/\ last'.op = "OpenBid" /\ last'.name = n
              /\ \/ last'.price = 0
                 \/ last'.salt.ok /\ last'.salt.bytes.len < SaltMinLen)
                => (last'.err /\ ledger' = ledger /\ event' = <<>>)
          /\ \A i \in DOMAIN ledger[n].Bids :
                ledger'[n].Bids[i].BidPrice # ledger[n].Bids[i].BidPrice
                => /\ ledger'[n].Bids[i].BidPrice # 0
                   /\ ledger'[n].Bids[i].BidPrice = last'.price
                   /\ last'.salt.bytes.len >= SaltMinLen
          /\ \A i \in DOMAIN ledger[n].Bids :
                LET bid == ledger[n].Bids[i] IN
                bid.HiddenCommit \in {Commitment(bid.Buyer, 0, GoodSalt),
                                      Commitment(bid.Buyer, 1, ShortSalt)}
                => bid.BidPrice = 0]_vars

C20_Witness ==
    \E n \in DOMAIN ledger : \E i, j \in DOMAIN ledger[n].Bids :
        /\ last.op = "OpenBid" /\ last.name = n /\ last.err
        /\ last.price = 0
        /\ last.salt.ok /\ last.salt.bytes.len >= SaltMinLen
        /\ ledger[n].Bids[i].Buyer = last.caller
        /\ ledger[n].Bids[i].BidPrice = 0
        /\ ledger[n].Bids[i].HiddenCommit = Commitment(last.caller, 0, last.salt.bytes)
        /\ ledger[n].Bids[j].Buyer = last.caller
        /\ ledger[n].Bids[j].BidPrice = 0
        /\ ledger[n].Bids[j].HiddenCommit = Commitment(last.caller, 1, ShortSalt)

(* C21: a Bid that succeeds was made on an Open auction with a commitment  *)
(* of exactly 64 bytes and appends one entry at the end of the bid list,   *)
(* with the caller as buyer, bidPrice 0 and that commitment, the earlier   *)
(* entries and everything else staying as they were; a Bid whose           *)
(* commitment is not 64 bytes long returns an error and appends nothing.   *)
C21_BidAppends ==
    [][\A n \in DOMAIN ledger :
          (last'.op = "Bid" /\ last'.name = n)
          => /\ ~last'.err
                  => /\ ledger[n].Status = Open
                     /\ last'.commit.ok
                     /\ last'.commit.bytes.n = 64
                     /\ ledger' = [ledger EXCEPT ![n].Bids =
                                      Append(@, [Buyer |-> last'.caller, BidPrice |-> 0,
                                                 HiddenCommit |-> last'.commit.bytes])]
             /\ (last'.commit.ok /\ last'.commit.bytes.n # 64)
                  => (last'.err /\ ledger' = ledger)]_vars

C21_Witness ==
    \E n \in DOMAIN ledger :
        LET bids == ledger[n].Bids IN
        /\ last.op = "Bid" /\ last.name = n /\ ~last.err
        /\ Len(bids) = 2
        /\ bids[1].Buyer # last.caller
        /\ bids[1].BidPrice # 0
        /\ bids[2] = [Buyer |-> last.caller, BidPrice |-> 0,
                      HiddenCommit |-> last.commit.bytes]

(* C22 as claimed: every step that changes the stored auction sets an      *)
(* auction summary event for that auction.                                 *)
C22_EveryChangeEmits ==
    [][\A n \in DOMAIN ledger' :
          (n \notin DOMAIN ledger \/ ledger'[n] # ledger[n])
          => (event' # <<>> /\ event'[1].Name = n)]_vars

(* C22 amended: every step that creates an auction or changes its status   *)
(* (CreateAuction, CloseAuction from Open, EndAuction, DirectBuy) sets an  *)
(* auction summary event carrying the auction's name, seller, new status   *)
(* and directBuyPrice; a Bid or OpenBid that changes the stored bids sets  *)
(* no event.                                                               *)
C22_StatusChangeEmits ==
    [][\A n \in DOMAIN ledger' :
          /\ (n \notin DOMAIN ledger \/ ledger'[n].Status # ledger[n].Status)
                => /\ last'.op \in {"CreateAuction", "CloseAuction", "EndAuction",
                                    "DirectBuy"}
                   /\ last'.name = n
                   /\ event' # <<>>
                   /\ event'[1].Name = n
                   /\ event'[1].Seller = ledger'[n].Seller
                   /\ event'[1].Status = ledger'[n].Status
                   /\ event'[1].DirectBuyPrice = ledger'[n].DirectBuyPrice
          /\ (n \in DOMAIN ledger /\ ledger'[n].Bids # ledger[n].Bids)
                => /\ last'.op \in {"Bid", "OpenBid"}
                   /\ last'.name = n
                   /\ event' = <<>>]_vars

C22_Witness ==
    \E n \in DOMAIN ledger :
        /\ last.op = "CloseAuction" /\ last.name = n /\ ~last.err
        /\ event # <<>>
        /\ event[1].Name = n
        /\ event[1].Status = Closed
        /\ ledger[n].Status = Closed
        /\ \E i \in DOMAIN ledger[n].Bids : ledger[n].Bids[i].BidPrice # 0

C24_SealedWhileOpen ==
    \A n \in DOMAIN ledger :
        ledger[n].Status = Open
        => \A i \in DOMAIN ledger[n].Bids : ledger[n].Bids[i].BidPrice = 0

(* C25: after an OpenBid(name, price, salt) with price # 0 and a salt of   *)
(* at least 64 bytes on an existing auction, the call has succeeded and    *)
(* every bid of the caller whose hiddenCommit is the client's commitment   *)
(* to (caller, price, salt) has bidPrice = price.                          *)
C25_CommitRevealRoundTrip ==
    [][\A n \in DOMAIN ledger :
          (/\ last'.op = "OpenBid" /\ last'.name = n
           /\ last'.price # 0
           /\ last'.salt.ok /\ last'.salt.bytes.len >= SaltMinLen)
          => /\ ~last'.err
             /\ \A i \in DOMAIN ledger[n].Bids :
                   (/\ ledger[n].Bids[i].Buyer = last'.caller
                    /\ ledger[n].Bids[i].HiddenCommit
                          = Commitment(last'.caller, last'.price, last'.salt.bytes))
                   => ledger'[n].Bids[i].BidPrice = last'.price]_vars

C25_Witness ==
    \E n \in DOMAIN ledger : \E i, j \in DOMAIN ledger[n].Bids :
        /\ last.op = "OpenBid" /\ last.name = n /\ ~last.err
        /\ last.price = 256
        /\ last.salt = HexEncode(LongSalt)
        /\ ledger[n].Bids[i].Buyer = last.caller
        /\ ledger[n].Bids[i].HiddenCommit = Commitment(last.caller, 256, LongSalt)
        /\ ledger[n].Bids[i].BidPrice = 256
        /\ ledger[n].Bids[j].Buyer = last.caller
        /\ ledger[n].Bids[j].HiddenCommit = Commitment(last.caller, 1, LongSalt)
        /\ ledger[n].Bids[j].BidPrice = 0

(* C26: an OpenBid(name, price, salt) leaves every bid of the auction      *)
(* unchanged that belongs to another bidder or whose hiddenCommit is not   *)
(* the commitment to (caller, price, salt): the caller's other hidden bids *)
(* stay hidden and the bid list keeps its length.                          *)
C26_RevealOnlyMatching ==
    [][\A n \in DOMAIN ledger :
          (last'.op = "OpenBid" /\ last'.name = n)
          => /\ Len(ledger'[n].Bids) = Len(ledger[n].Bids)
             /\ \A i \in DOMAIN ledger[n].Bids :
                   (\/ ledger[n].Bids[i].Buyer # last'.caller
                    \/ ledger[n].Bids[i].HiddenCommit
                          # Commitment(last'.caller, last'.price, last'.salt.bytes))
                   => ledger'[n].Bids[i] = ledger[n].Bids[i]]_vars

C26_Witness ==
    \E n \in DOMAIN ledger : \E i, j \in DOMAIN ledger[n].Bids :
        LET bids == ledger[n].Bids IN
        /\ last.op = "OpenBid" /\ last.name = n /\ ~last.err
        /\ bids[i].Buyer = last.caller
        /\ bids[i].BidPrice = last.price
        /\ bids[i].HiddenCommit = Commitment(last.caller, last.price, last.salt.bytes)
        /\ bids[j].Buyer # last.caller
        /\ bids[j].HiddenCommit = Commitment(bids[j].Buyer, last.price, last.salt.bytes)
        /\ bids[j].BidPrice = 0

(* C27: a transaction invoked with auction name A, whether or not it       *)
(* succeeds, leaves every stored auction with another name in the world    *)
(* state exactly as it was.                                                *)
C27_OtherAuctionsUntouched ==
    [][\A n \in DOMAIN ledger :
          n # last'.name
          => (n \in DOMAIN ledger' /\ ledger'[n] = ledger[n])]_vars

C27_Witness ==
    \E n, m \in DOMAIN ledger :
        /\ n # m
        /\ last.name = m /\ last.op = "EndAuction" /\ ~last.err
        /\ event # <<>>
        /\ ledger[m].Status = Ended
        /\ ledger[m].Winner # Nil
        /\ ledger[n].Status = Open
        /\ ledger[n].Seller # ledger[m].Seller
        /\ ledger[n].Winner = Nil
        /\ \E i \in DOMAIN ledger[n].Bids : ledger[n].Bids[i].BidPrice = 0

(* C28: an auction that is not Ended has no winner and hammerPrice 0, and  *)
(* a step changes the winner or the hammerPrice of an auction only if it   *)
(* takes the auction from a status other than Ended to Ended.              *)
C28_ResultOnlyWhenEnded ==
    [][\A n \in DOMAIN ledger' :
          /\ ledger'[n].Status # Ended
                => (ledger'[n].Winner = Nil /\ ledger'[n].HammerPrice = 0)
          /\ (/\ n \in DOMAIN ledger
              /\ \/ ledger'[n].Winner # ledger[n].Winner
                 \/ ledger'[n].HammerPrice # ledger[n].HammerPrice)
                => (ledger[n].Status # Ended /\ ledger'[n].Status = Ended)]_vars

C28_Witness ==
    \E n \in DOMAIN ledger :
        /\ last.op = "EndAuction" /\ last.name = n /\ ~last.err
        /\ event # <<>>
        /\ ledger[n].Status = Ended
        /\ ledger[n].Winner # Nil
        /\ ledger[n].HammerPrice # 0
        /\ ledger[n].DirectBuyPrice # 0
        /\ ledger[n].HammerPrice < ledger[n].DirectBuyPrice

(* C29: an auction is stored under its name with the creator as seller and *)
(* the directBuyPrice given at creation, and no step by any caller changes *)
(* the name, the seller or the directBuyPrice of a stored auction.         *)
C29_IdentityFixed ==
    [][\A n \in DOMAIN ledger' :
          IF n \in DOMAIN ledger
          THEN /\ ledger'[n].Name = ledger[n].Name
               /\ ledger'[n].Seller = ledger[n].Seller
               /\ ledger'[n].DirectBuyPrice = ledger[n].DirectBuyPrice
          ELSE /\ last'.op = "CreateAuction"
               /\ ledger'[n].Name = n
               /\ last'.name = n
               /\ ledger'[n].Seller = last'.caller
               /\ ledger'[n].DirectBuyPrice = last'.price]_vars

C29_Witness ==
    \E n \in DOMAIN ledger :
        /\ last.op = "DirectBuy" /\ last.name = n /\ ~last.err
        /\ last.caller # ledger[n].Seller
        /\ ledger[n].Name = n
        /\ ledger[n].DirectBuyPrice = NamesOffer
        /\ Len(ledger[n].Bids) > 0

(* The auction of the README example has just been ended by EndAuction:    *)
(* its bids are bidder1's, revealed at 30, and bidder2's, revealed at 50.  *)
ReadmeEnded(n) ==
    /\ EndedByEndAuction(n)
    /\ ledger[n].Status = Ended
    /\ ledger[n].Bids = <<RevealedBid(ReadmeBidder1, 30), RevealedBid(ReadmeBidder2, 50)>>

C31_EndOpenFails ==
    [][\A n \in DOMAIN ledger :
          (/\ last'.op = "EndAuction" /\ last'.name = n
           /\ last'.caller = ledger[n].Seller
           /\ ledger[n].Status = Open)
          => (last'.err /\ ledger'[n].Status = Open)]_vars

(* C31 amended: EndAuction by the seller on an auction whose status is     *)
(* Open is not rejected for the status: when no bid of the auction is      *)
(* hidden it succeeds, takes the auction from Open to Ended and sets the   *)
(* summary event; when a bid is hidden it returns an error and leaves the  *)
(* auction Open.                                                           *)
C31_EndOpenEnds ==
    [][\A n \in DOMAIN ledger :
          (/\ last'.op = "EndAuction" /\ last'.name = n
           /\ last'.caller = ledger[n].Seller
           /\ ledger[n].Status = Open)
          => IF \A i \in DOMAIN ledger[n].Bids : ledger[n].Bids[i].BidPrice # 0
             THEN /\ ~last'.err
                  /\ ledger'[n].Status = Ended
                  /\ ledger'[n].Bids = ledger[n].Bids
                  /\ event' # <<>>
                  /\ event'[1].Status = Ended
             ELSE /\ last'.err
                  /\ ledger' = ledger
                  /\ event' = <<>>]_vars

C31_Witness ==
    \E n \in DOMAIN ledger :
        /\ last.op = "EndAuction" /\ last.name = n /\ ~last.err
        /\ last.caller = ledger[n].Seller
        /\ event # <<>>
        /\ ledger[n].Status = Ended
        /\ ledger[n].Winner = RevealBidder
        /\ Len(ledger[n].Bids) > 0

(* C32: two executions of an EndAuction on the same world state that get  *)
(* the same index from the random source record the same winner and the    *)
(* same hammerPrice, whatever the order of the range over the per-bidder   *)
(* map and of equal prices after the sort.                                 *)
C32_SameDrawSameResult ==
    \A n \in DOMAIN ledger :
        (/\ last.op = "EndAuction" /\ last.name = n /\ ~last.err
         /\ Len(peer.put) = 1)
        => /\ ledger[n].Winner = peer.put[1].Winner
           /\ ledger[n].HammerPrice = peer.put[1].HammerPrice

(* C33: with transactions of several clients in flight on one auction and  *)
(* the ledger rejecting at commit every transaction whose read of the      *)
(* auction is stale, no committed update is lost: a committed Bid adds     *)
(* exactly its entry at the end of the bid list as it stands at commit, a  *)
(* committed OpenBid leaves every matching bid of the caller revealed, and *)
(* no commit of any transaction removes or reorders a bid or hides or      *)
(* changes a revealed price.                                               *)
C33_NoLostUpdate ==
    [][\A n \in DOMAIN ledger :
          LET old == ledger[n].Bids
              new == ledger'[n].Bids
              committed == /\ pending[last'.caller] # <<>>
                           /\ pending'[last'.caller] = <<>>
                           /\ last'.name = n /\ ~last'.err
          IN /\ Len(new) >= Len(old)
             /\ \A i \in DOMAIN old :
                   /\ new[i].Buyer = old[i].Buyer
                   /\ new[i].HiddenCommit = old[i].HiddenCommit
                   /\ old[i].BidPrice # 0 => new[i].BidPrice = old[i].BidPrice
             /\ (committed /\ last'.op = "Bid")
                   => new = Append(old, [Buyer |-> last'.caller, BidPrice |-> 0,
                                         HiddenCommit |-> last'.commit.bytes])
             /\ (committed /\ last'.op = "OpenBid")
                   => \A i \in DOMAIN old :
                         (/\ old[i].Buyer = last'.caller
                          /\ old[i].HiddenCommit
                                = Commitment(last'.caller, last'.price, last'.salt.bytes))
                         => new[i].BidPrice = last'.price
             /\ (committed /\ last'.op \notin {"Bid", "OpenBid"})
                   => new = old]_vars

(* a Bid was rejected as stale because another bidder's Bid, simulated on  *)
(* the same world state, was committed first; that bid is in the list, and *)
(* a reveal is in flight                                                   *)
C33_Witness ==
    \E n \in DOMAIN ledger : \E c \in Certs :
        /\ last.op = "Bid" /\ last.name = n /\ last.err
        /\ Len(ledger[n].Bids) = 1
        /\ ledger[n].Bids[1].Buyer # last.caller
        /\ pending[c] # <<>>
        /\ pending[c][1].prop.op = "OpenBid"
        /\ ~pending[c][1].stale

(* C34: a CloseAuction, EndAuction, Bid, OpenBid or DirectBuy on a name     *)
(* under which no auction is stored returns an error, writes nothing and   *)
(* sets no event; the name is still free afterwards, so that a             *)
(* CreateAuction with it by any client succeeds and stores an auction of   *)
(* that name.                                                              *)
C34_MissingAuctionFails ==
    [][\A n \in Names :
          (/\ n \notin DOMAIN ledger
           /\ last'.name = n
           /\ last'.op \in {"CloseAuction", "EndAuction", "Bid", "OpenBid", "DirectBuy"})
          => /\ last'.err
             /\ ledger' = ledger
             /\ n \notin DOMAIN ledger'
             /\ event' = <<>>
             /\ \A c \in Creators, d \in DirectBuyPrices :
                   \A r \in CreateAuctionTx(ledger', c, n, d) :
                       /\ ~r.err
                       /\ Len(r.put) = 1
                       /\ r.put[1].Name = n
                       /\ r.put[1].Status = Open]_vars

C34_Witness ==
    \E n, m \in Names :
        /\ n \notin DOMAIN ledger
        /\ m \in DOMAIN ledger
        /\ last.name = n /\ last.op = "DirectBuy" /\ last.err
        /\ ledger[m].Status = Open
        /\ ledger[m].DirectBuyPrice # 0
        /\ last.price >= ledger[m].DirectBuyPrice
        /\ Len(ledger[m].Bids) > 0

(* C35: the summary a transaction sets as event carries a result exactly  *)
(* when the status it reports is Ended; the result's winner and            *)
(* hammerPrice, and the summary's status, are those the transaction stored *)
(* in the auction; directBuy is true in the summaries of DirectBuy and     *)
(* false in those of EndAuction, and no other transaction sets a result.   *)
C35_SummaryMatchesAuction ==
    event # <<>>
    => LET summary == event[1] IN
       /\ summary.Name = last.name
       /\ summary.Name \in DOMAIN ledger
       /\ summary.Status = ledger[summary.Name].Status
       /\ (summary.Result # <<>>) <=> (summary.Status = Ended)
       /\ summary.Result # <<>>
             => /\ summary.Result[1].Winner = ledger[summary.Name].Winner
                /\ summary.Result[1].HammerPrice = ledger[summary.Name].HammerPrice
                /\ last.op \in {"EndAuction", "DirectBuy"}
                /\ summary.Result[1].DirectBuy <=> (last.op = "DirectBuy")

C35_Witness ==
    /\ event # <<>>
    /\ last.op = "EndAuction"
    /\ event[1].Status = Ended
    /\ event[1].DirectBuyPrice # 0
    /\ event[1].Result # <<>>
    /\ event[1].Result[1].Winner = RevealBidder
    /\ event[1].Result[1].HammerPrice # 0
    /\ ~event[1].Result[1].DirectBuy

(* C36: an auction with at least one bid that EndAuction has ended (one    *)
(* that EndAuction has just ended, or any Ended auction whose              *)
(* directBuyPrice is 0, which DirectBuy cannot have ended) has, then and   *)
(* in every later state, all its bids revealed, a winner who is the buyer  *)
(* of a bid at the highest revealed price, and a hammerPrice above 0 and   *)
(* at most that highest price.                                             *)
C36_EndedAuctionShape ==
    \A n \in DOMAIN ledger :
        LET a == ledger[n]
            top == MaxOf({a.Bids[i].BidPrice : i \in DOMAIN a.Bids})
        IN (/\ a.Status = Ended
            /\ Len(a.Bids) > 0
            /\ a.DirectBuyPrice = 0 \/ EndedByEndAuction(n))
           => /\ \A i \in DOMAIN a.Bids : a.Bids[i].BidPrice # 0
              /\ \E i \in DOMAIN a.Bids :
                    a.Bids[i].Buyer = a.Winner /\ a.Bids[i].BidPrice = top
              /\ 0 < a.HammerPrice
              /\ a.HammerPrice <= top

C36_Witness ==
    \E n \in DOMAIN ledger :
        LET a == ledger[n] IN
        /\ a.Status = Ended /\ a.DirectBuyPrice = 0
        /\ last.op = "OpenBid" /\ last.name = n /\ ~last.err
        /\ Len(a.Bids) = 2
        /\ a.Bids[1].Buyer # a.Bids[2].Buyer
        /\ a.Bids[1].BidPrice < a.Bids[2].BidPrice
        /\ a.Winner = a.Bids[2].Buyer
        /\ a.HammerPrice = a.Bids[1].BidPrice

(* C37: in every step every stored auction stays stored and its bid list   *)
(* keeps every entry at its position with the same buyer and the same      *)
(* hiddenCommit, growing by at most one entry at the end; an entry whose   *)
(* bidPrice is not 0 is never changed again, whatever the transaction, its *)
(* caller, price and salt.                                                 *)
C37_BidsAppendOnly ==
    [][\A n \in DOMAIN ledger :
          /\ n \in DOMAIN ledger'
          /\ LET old == ledger[n].Bids
                 new == ledger'[n].Bids
             IN /\ Len(new) \in {Len(old), Len(old) + 1}
                /\ \A i \in DOMAIN old :
                      /\ new[i].Buyer = old[i].Buyer
                      /\ new[i].HiddenCommit = old[i].HiddenCommit
                      /\ old[i].BidPrice # 0 => new[i] = old[i]]_vars

C37_Witness ==
    \E n \in DOMAIN ledger : \E i, j \in DOMAIN ledger[n].Bids :
        LET bids == ledger[n].Bids IN
        /\ last.op = "OpenBid" /\ last.name = n /\ ~last.err
        /\ bids[i].Buyer = last.caller
        /\ bids[i].BidPrice # 0
        /\ bids[i].BidPrice # last.price
        /\ bids[j].Buyer = last.caller
        /\ bids[j].BidPrice = last.price
        /\ bids[j].HiddenCommit = Commitment(last.caller, last.price, last.salt.bytes)

(* C38: once an auction is Ended, a step changes nothing of it but the     *)
(* bidPrice of bids that were still hidden, and those only in an OpenBid   *)
(* of their buyer with the committed price and salt; such an OpenBid,      *)
(* which checks no status, succeeds and does reveal them.  Name, seller,   *)
(* status, directBuyPrice, winner, hammerPrice and the number of bids stay *)
(* as they are.                                                            *)
C38_EndedFrozenButReveals ==
    [][\A n \in DOMAIN ledger :
          ledger[n].Status = Ended
          => /\ n \in DOMAIN ledger'
             /\ LET old == ledger[n]
                    new == ledger'[n]
                    matches(i) ==
                        /\ last'.op = "OpenBid" /\ last'.name = n
                        /\ last'.price # 0
                        /\ last'.salt.ok /\ last'.salt.bytes.len >= SaltMinLen
                        /\ old.Bids[i].Buyer = last'.caller
                        /\ old.Bids[i].BidPrice = 0
                        /\ old.Bids[i].HiddenCommit
                              = Commitment(last'.caller, last'.price, last'.salt.bytes)
                IN /\ new = [old EXCEPT !.Bids = new.Bids]
                   /\ Len(new.Bids) = Len(old.Bids)
                   /\ \A i \in DOMAIN old.Bids :
                         IF matches(i)
                         THEN /\ ~last'.err
                              /\ new.Bids[i] = [old.Bids[i] EXCEPT !.BidPrice = last'.price]
                         ELSE new.Bids[i] = old.Bids[i]]_vars

(* an OpenBid on an auction that DirectBuy ended, leaving the caller with  *)
(* a revealed bid and a bid that can never be revealed                     *)
C38_Witness ==
    \E n \in DOMAIN ledger : \E i, j \in DOMAIN ledger[n].Bids :
        LET a == ledger[n] IN
        /\ a.Status = Ended
        /\ a.HammerPrice = RevealOffer
        /\ last.op = "OpenBid" /\ last.name = n /\ ~last.err
        /\ a.Bids[i].Buyer = last.caller
        /\ a.Bids[i].BidPrice = last.price
        /\ a.Bids[i].HiddenCommit = Commitment(last.caller, last.price, last.salt.bytes)
        /\ a.Bids[j].BidPrice = 0

(* the bid is revealed, or OpenBid accepts the price and salt it was      *)
(* committed with                                                          *)
Revealable(bid) ==
    \/ bid.BidPrice # 0
    \/ \E x \in RevealInputs :
          /\ x[1] # 0
          /\ x[2].len >= SaltMinLen
          /\ bid.HiddenCommit = Commitment(bid.Buyer, x[1], x[2])

(* C39: when the bidders keep revealing and the seller keeps calling       *)
(* EndAuction, a Closed auction in which every hidden bid was committed    *)
(* with a price and salt that OpenBid accepts eventually is Ended; and an  *)
(* auction with directBuyPrice = 0 is never Ended while it holds a hidden  *)
(* bid, so that with a bid that is never revealed it never gets Ended.     *)
C39_Progress ==
    /\ \A n \in Auctions :
          (/\ n \in DOMAIN ledger
           /\ ledger[n].Status = Closed
           /\ \A i \in DOMAIN ledger[n].Bids : Revealable(ledger[n].Bids[i]))
          ~> (n \in DOMAIN ledger /\ ledger[n].Status = Ended)
    /\ [](\A n \in DOMAIN ledger :
            (/\ ledger[n].DirectBuyPrice = 0
             /\ \E i \in DOMAIN ledger[n].Bids : ledger[n].Bids[i].BidPrice = 0)
            => ledger[n].Status # Ended)

C39_Witness ==
    \E n \in DOMAIN ledger :
        LET a == ledger[n] IN
        /\ last.op = "EndAuction" /\ last.name = n /\ ~last.err
        /\ event # <<>>
        /\ a.Status = Ended
        /\ a.DirectBuyPrice = 0
        /\ Len(a.Bids) = 2
        /\ \A i \in DOMAIN a.Bids :
              /\ a.Bids[i].BidPrice # 0
              /\ a.Bids[i].HiddenCommit
                    = Commitment(a.Bids[i].Buyer, a.Bids[i].BidPrice, GoodSalt)
        /\ a.Winner = RevealBidder

(* C40: the hammerPrice EndAuction records is determined by the highest    *)
(* prices of the bidders alone: before the call every possible execution   *)
(* (every order of the map and of equal prices, every random draw) would   *)
(* record the same hammerPrice; after it a second execution has recorded   *)
(* the same hammerPrice as the committed one, also when it picked another  *)
(* winner, and that price is the highest price when one bidder bid or      *)
(* several tie at the top, and the highest price of the others otherwise.  *)
C40_HammerPriceDetermined ==
    \A n \in DOMAIN ledger :
        LET a == ledger[n] IN
        /\ (a.Status # Ended /\ \A i \in DOMAIN a.Bids : a.Bids[i].BidPrice # 0)
              => \A r1, r2 \in EndAuctionTx(ledger, a.Seller, n) :
                    /\ Len(r1.put) = 1 /\ Len(r2.put) = 1
                    /\ r1.put[1].HammerPrice = r2.put[1].HammerPrice
        /\ (EndedByEndAuction(n) /\ Len(a.Bids) > 0)
              => /\ Len(peer.put) = 1
                 /\ peer.put[1].HammerPrice = a.HammerPrice
                 /\ a.HammerPrice = IF Cardinality(TopBidders(a)) >= 2
                                    THEN TopPrice(a)
                                    ELSE PriceBelowTop(a)

C40_Witness ==
    \E n \in DOMAIN ledger :
        LET a == ledger[n] IN
        /\ EndedByEndAuction(n)
        /\ Cardinality(BuyersOf(a)) = 3
        /\ Cardinality(TopBidders(a)) = 2
        /\ Len(peer.put) = 1
        /\ peer.put[1].Winner # a.Winner
        /\ peer.put[1].HammerPrice = a.HammerPrice
        /\ a.HammerPrice > PriceBelowTop(a)

=============================================================================
